---- MODULE Spec2Model ----
(***************************************************************************)
(* Lathe Estimator Pro: the single-page application that sends a blueprint *)
(* to an AI model, shows the returned cycle-time estimate, lets the user   *)
(* edit it, derives a cost, and keeps a history in the browser's           *)
(* localStorage.                                                           *)
(*                                                                         *)
(* Units.  JavaScript numbers are modelled as exact integers in fixed      *)
(* units: times in hundredths of a second, feed rates in hundredths of a   *)
(* mm/rev, densities in hundredths of a g/cm3, rpm and money in units.     *)
(* An optional number (rpm?: number) is <<>> when undefined and <<n>>      *)
(* otherwise.  Chinese keywords of the source are written as ASCII         *)
(* transliterations in braces, e.g. "{diaotou}".                           *)
(***************************************************************************)
EXTENDS Integers, Sequences, FiniteSets, TLC

VARIABLES
  appState,        \* App: AppState
  result,          \* App: EstimationResult | null
  errorMsg,        \* App: string | null
  previewImage,    \* App: string | null
  selectedFile,    \* EmptyState: File | null
  apiKey,          \* EmptyState: the API key typed in the form
  sides,           \* EmptyState: machining sides of the form
  form,            \* EmptyState: materialSelection, customMaterial, od, length
  history,         \* EmptyState: the history list read at mount
  localResult,     \* ResultsView: the editable copy of result
  hourlyRate,      \* CostAnalysisCard
  materialPriceKg, \* CostAnalysisCard
  customDensity,   \* CostAnalysisCard
  store,           \* localStorage[STORAGE_KEY], parsed
  now,             \* Date.now()
  env,             \* the environment's API keys
  proc,            \* the running handleAnalyze / saveHistoryItem calls
  started,         \* number of calls started so far
  edited,          \* ResultsView: the operations whose rpm or feed was edited
  lastCall         \* the handler that took the last step

vars == <<appState, result, errorMsg, previewImage, selectedFile, apiKey,
          sides, form, history, localResult, hourlyRate, materialPriceKg,
          customDensity, store, now, env, proc, started, edited, lastCall>>

appVars == <<appState, result, errorMsg, previewImage>>
formVars == <<selectedFile, apiKey, sides, form>>
costVars == <<hourlyRate, materialPriceKg, customDensity>>

NULL == [null |-> TRUE]

\* the handler that took a step, the call (0: none) it belongs to and, for
\* a save, the length of the list it read from storage
Call(op, slot) == [op |-> op, slot |-> slot, existing |-> 0]

(***************************************************************************)
(* JavaScript primitives                                                   *)
(***************************************************************************)

\* String.prototype.includes: case-sensitive substring search
Includes(s, pat) ==
  \E i \in 1..(Len(s) - Len(pat) + 1) : SubSeq(s, i, i + Len(pat) - 1) = pat

LowerOf ==
  [A |-> "a", B |-> "b", C |-> "c", D |-> "d", E |-> "e", F |-> "f",
   G |-> "g", H |-> "h", I |-> "i", J |-> "j", K |-> "k", L |-> "l",
   M |-> "m", N |-> "n", O |-> "o", P |-> "p", Q |-> "q", R |-> "r",
   S |-> "s", T |-> "t", U |-> "u", V |-> "v", W |-> "w", X |-> "x",
   Y |-> "y", Z |-> "z"]

RECURSIVE ToLowerCase(_)
ToLowerCase(s) ==
  IF s = "" THEN ""
  ELSE LET c == SubSeq(s, 1, 1)
       IN  (IF c \in DOMAIN LowerOf THEN LowerOf[c] ELSE c)
             \o ToLowerCase(SubSeq(s, 2, Len(s)))

\* x || 0 for an optional number
OrZero(x) == IF x = <<>> THEN 0 ELSE x[1]

\* truthiness of an optional number: undefined and 0 are falsy
Truthy(x) == x # <<>> /\ x[1] # 0

\* Math.round(num / den) for den > 0: the nearest integer, halves upwards
MathRound(num, den) == (2 * num + den) \div (2 * den)

RECURSIVE SumTimes(_)
SumTimes(ops) ==
  IF ops = <<>> THEN 0
  ELSE Head(ops).estimatedTimeSeconds + SumTimes(Tail(ops))

(***************************************************************************)
(* ResultsView: editing the estimate                                       *)
(***************************************************************************)

Op(name, t, rpm, feed) ==
  [name |-> name, estimatedTimeSeconds |-> t, rpm |-> rpm, feedRate |-> feed]

\* the value of an <input type="number">: its text and what parseFloat
\* makes of it (<<>> is NaN)
EmptyInput == [text |-> "", num |-> <<>>]
NaNInput == [text |-> "abc", num |-> <<>>]
NumInput(n) == [text |-> "num", num |-> <<n>>]

\* const numValue = value === '' ? 0 : parseFloat(value)
\* currentOp[field] = isNaN(numValue) ? undefined : numValue
NumValue(value) == IF value.text = "" THEN <<0>> ELSE value.num

\* the recalculated time, in hundredths of a second:
\* Math.round(workFactor / (newRpm * newFeed) * 10) / 10
NewTime(originalOp, newRpm, newFeed) ==
  LET workFactor == originalOp.estimatedTimeSeconds * originalOp.rpm[1]
                      * originalOp.feedRate[1]
  IN  10 * MathRound(workFactor, 10 * newRpm * newFeed)

Recalculated(originalOp, currentOp) ==
  IF /\ originalOp.estimatedTimeSeconds # 0
     /\ Truthy(originalOp.rpm)
     /\ Truthy(originalOp.feedRate)
  THEN LET newRpm == OrZero(currentOp.rpm)
           newFeed == OrZero(currentOp.feedRate)
       IN  IF newRpm > 0 /\ newFeed > 0
           THEN [currentOp EXCEPT
                   !.estimatedTimeSeconds = NewTime(originalOp, newRpm, newFeed)]
           ELSE currentOp
  ELSE currentOp

\* the stale-closure slip: the total summed over the operations before the edit
StaleTotalTime(newOperations) == 10 * MathRound(SumTimes(localResult.operations), 10)

\* Math.round(newTotalTime * 10) / 10
NewTotalTime(newOperations) == 10 * MathRound(SumTimes(newOperations), 10)

\* the drift slip: the work factor taken from the edited copy
LocalOp(index) == localResult.operations[index]

\* const originalOp = result.operations[index]
OriginalOp(index) == result.operations[index]

ParamChanged(index, field, value) ==
  LET currentOp == [localResult.operations[index] EXCEPT ![field] = NumValue(value)]
      originalOp == OriginalOp(index)
      newOperations == [localResult.operations EXCEPT
                          ![index] = Recalculated(originalOp, currentOp)]
  IN  [localResult EXCEPT !.operations = newOperations,
                          !.totalTimeSeconds = NewTotalTime(newOperations)]

OpTextChanged(index, field, value) ==
  [localResult EXCEPT !.operations[index][field] = value]

\* the keywords that switch the split to side 2
IsSide2Keyword(n) ==
  \/ Includes(n, "op20")
  \/ Includes(n, "side 2")
  \/ Includes(n, "{dierxu}")
  \/ Includes(n, "{beimian}")

\* the keywords of the flip / sub-spindle transfer operation
IsFlipKeyword(n) ==
  \/ Includes(n, "flip")
  \/ Includes(n, "{diaotou}")
  \/ Includes(n, "{fanzhuan}")
  \/ Includes(n, "{jieliao}")
  \/ Includes(n, "{fuzhuzhou}")

\* the slip of a flip branch without its return: the flip time lands in both
BucketsNoReturn(n, isSide2) ==
  IF IsFlipKeyword(n) THEN {"l1", "l2"}
  ELSE IF isSide2 \/ IsSide2Keyword(n) THEN {"l2"} ELSE {"l1"}

\* the accumulators one forEach iteration adds op.estimatedTimeSeconds to;
\* isSide2 is the flag before the iteration
Buckets(n, isSide2) ==
  IF IsFlipKeyword(n) THEN {"l1"}
  ELSE IF isSide2 \/ IsSide2Keyword(n) THEN {"l2"} ELSE {"l1"}

RECURSIVE SplitFrom(_, _, _, _, _)
SplitFrom(ops, k, l1, l2, isSide2) ==
  IF k > Len(ops) THEN [l1 |-> l1, l2 |-> l2]
  ELSE LET n == ToLowerCase(ops[k].name)
           t == ops[k].estimatedTimeSeconds
           b == Buckets(n, isSide2)
       IN  SplitFrom(ops, k + 1,
                     IF "l1" \in b THEN l1 + t ELSE l1,
                     IF "l2" \in b THEN l2 + t ELSE l2,
                     isSide2 \/ IsSide2Keyword(n) \/ IsFlipKeyword(n))

\* l1 and l2 before the final Math.round, in hundredths of a second
SplitRaw(ops) == SplitFrom(ops, 1, 0, 0, FALSE)

\* { l1: Math.round(l1), l2: Math.round(l2) }, in seconds
splitTimes ==
  [l1 |-> MathRound(SplitRaw(localResult.operations).l1, 100),
   l2 |-> MathRound(SplitRaw(localResult.operations).l2, 100)]

\* {splitTimes.l2 > 0 && (...L1... | ...L2...)}
SplitShown == splitTimes.l2 > 0

(***************************************************************************)
(* The estimates the AI model returns                                      *)
(***************************************************************************)

Estimate(material, od, id, len, ops, total, side) ==
  [material |-> material, stockDiameter |-> od, stockInnerDiameter |-> id,
   stockLength |-> len, operations |-> ops, totalTimeSeconds |-> total,
   sideMode |-> side]

\* a two-sided job: OP10, the flip, OP20; its times carry hundredths
TwoSided ==
  Estimate("S45C", "50mm", "0", "120 mm",
           <<Op("OP10 rough turning", 1234, <<1000>>, <<20>>),
             Op("Flip part", 600, <<>>, <<>>),
             Op("OP20 finish", 2050, <<1500>>, <<10>>)>>,
           3900, "2")

\* a one-sided job whose total is not the sum of its operations
OneSided ==
  Estimate("AL6061", "20", "8.5", "30",
           <<Op("Facing", 1200, <<1000>>, <<20>>),
             Op("Drilling", 805, <<500>>, <<10>>)>>,
           2100, "1-right")

\* a single operation without cutting data
Bare ==
  Estimate("", "", "", "",
           <<Op("{beimian} boring", 450, <<>>, <<25>>)>>,
           450, "1-complete")

\* a single operation with cutting data
Single ==
  Estimate("SUS304", "32.5mm", "", "80",
           <<Op("Turning", 1234, <<1000>>, <<20>>)>>,
           1234, "1-right")

EditResults == {TwoSided, OneSided, Bare}

\* what the user types into the S and F inputs, and into an operation's name
RpmInputs == {EmptyInput, NumInput(500), NumInput(1000)}
FeedInputs == {NaNInput, NumInput(10)}
NameInputs == {"{diaotou}"}

(***************************************************************************)
(* ResultsView: the handlers                                               *)
(***************************************************************************)

handleParamChange(index, field, value) ==
  /\ appState = "SUCCESS"
  /\ index \in 1..Len(localResult.operations)
  /\ localResult' = ParamChanged(index, field, value)
  /\ edited' = edited \cup {index}
  /\ lastCall' = Call("handleParamChange", 0)
  /\ UNCHANGED <<appVars, formVars, history, costVars, store, now, env, proc,
                 started>>

handleOpTextChange(index, field, value) ==
  /\ appState = "SUCCESS"
  /\ index \in 1..Len(localResult.operations)
  /\ localResult' = OpTextChanged(index, field, value)
  /\ lastCall' = Call("handleOpTextChange", 0)
  /\ UNCHANGED <<appVars, formVars, history, costVars, store, now, env, proc,
                 started, edited>>

\* the rows of the operations table
OpIndices == IF localResult = NULL THEN {} ELSE DOMAIN localResult.operations

EditRpm ==
  \E index \in OpIndices, value \in RpmInputs :
    handleParamChange(index, "rpm", value)

EditFeed ==
  \E index \in OpIndices, value \in FeedInputs :
    handleParamChange(index, "feedRate", value)

EditName ==
  \E index \in OpIndices, value \in NameInputs :
    handleOpTextChange(index, "name", value)

(***************************************************************************)
(* CostAnalysisCard                                                        *)
(* Rational numbers are pairs <<numerator, denominator>> in lowest terms   *)
(* with a positive denominator.                                            *)
(***************************************************************************)

Abs(n) == IF n < 0 THEN -n ELSE n

RECURSIVE Gcd(_, _)
Gcd(a, b) == IF b = 0 THEN a ELSE Gcd(b, a % b)

Rat(n, d) ==
  LET g == Gcd(Abs(n), Abs(d))
      sgn == IF d < 0 THEN -1 ELSE 1
  IN  <<sgn * (n \div g), sgn * (d \div g)>>

RMul(a, b) ==
  LET x == Rat(a[1], b[2])
      y == Rat(b[1], a[2])
  IN  Rat(x[1] * y[1], x[2] * y[2])

RDiv(a, b) == RMul(a, <<b[2], b[1]>>)

RAdd(a, b) ==
  LET g == Gcd(a[2], b[2])
  IN  Rat(a[1] * (b[2] \div g) + b[1] * (a[2] \div g), (a[2] \div g) * b[2])

RSub(a, b) == RAdd(a, <<-b[1], b[2]>>)

RInt(n) == <<n, 1>>

\* Math.PI, as a rational
PI == <<22, 7>>

UpperOf ==
  [a |-> "A", b |-> "B", c |-> "C", d |-> "D", e |-> "E", f |-> "F",
   g |-> "G", h |-> "H", i |-> "I", j |-> "J", k |-> "K", l |-> "L",
   m |-> "M", n |-> "N", o |-> "O", p |-> "P", q |-> "Q", r |-> "R",
   s |-> "S", t |-> "T", u |-> "U", v |-> "V", w |-> "W", x |-> "X",
   y |-> "Y", z |-> "Z"]

RECURSIVE ToUpperCase(_)
ToUpperCase(s) ==
  IF s = "" THEN ""
  ELSE LET c == SubSeq(s, 1, 1)
       IN  (IF c \in DOMAIN UpperOf THEN UpperOf[c] ELSE c)
             \o ToUpperCase(SubSeq(s, 2, Len(s)))

Digits == "0123456789"

IsDigit(c) == \E d \in 1..10 : SubSeq(Digits, d, d) = c

DigitValue(c) == (CHOOSE d \in 1..10 : SubSeq(Digits, d, d) = c) - 1

\* val.replace(/[^0-9.]/g, '')
RECURSIVE DigitsAndDots(_)
DigitsAndDots(s) ==
  IF s = "" THEN ""
  ELSE LET c == SubSeq(s, 1, 1)
       IN  (IF IsDigit(c) \/ c = "." THEN c ELSE "")
             \o DigitsAndDots(SubSeq(s, 2, Len(s)))

\* parseFloat of a string of digits and dots: the longest prefix
\* digits [. digits]; <<>> (NaN) when that prefix has no digit
RECURSIVE ParseFrom(_, _, _, _, _, _)
ParseFrom(s, i, num, den, dot, any) ==
  IF i > Len(s) THEN (IF any THEN <<Rat(num, den)>> ELSE <<>>)
  ELSE LET c == SubSeq(s, i, i)
       IN  IF c = "."
           THEN IF dot THEN (IF any THEN <<Rat(num, den)>> ELSE <<>>)
                ELSE ParseFrom(s, i + 1, num, den, TRUE, any)
           ELSE ParseFrom(s, i + 1, 10 * num + DigitValue(c),
                          IF dot THEN 10 * den ELSE den, dot, TRUE)

ParseFloat(s) == ParseFrom(s, 1, 0, 1, FALSE, FALSE)

\* parseDim: 0 for a missing value or one without a number
parseDim(val) ==
  IF val = "" THEN RInt(0)
  ELSE LET num == ParseFloat(DigitsAndDots(val))
       IN  IF num = <<>> THEN RInt(0) ELSE num[1]

\* DENSITY_MAP in for..in order (the integer-like key "1215" comes first),
\* densities in hundredths of a g/cm3
DENSITY_MAP ==
  << <<"1215", 787>>, <<"S45C", 785>>, <<"SUS304", 793>>, <<"SUS316", 798>>,
     <<"AL6061", 270>>, <<"AL7075", 281>>, <<"SCM440", 785>>,
     <<"SCM415", 785>>, <<"SKD11", 780>>, <<"C3604", 850>>, <<"POM", 141>>,
     <<"ABS", 105>>, <<"FC", 720>>, <<"FCD", 710>> >>

\* the density the effect on [material] detects
DetectedDensity(material) ==
  LET matUpper == ToUpperCase(material)
      hits == {k \in DOMAIN DENSITY_MAP : Includes(matUpper, DENSITY_MAP[k][1])}
  IN  IF hits # {}
      THEN DENSITY_MAP[CHOOSE k \in hits : \A j \in hits : k <= j][2]
      ELSE IF Includes(matUpper, "{LV}") \/ Includes(matUpper, "ALUMINUM")
           THEN 270
      ELSE IF Includes(matUpper, "{BUXIUGANG}") \/ Includes(matUpper, "STAINLESS")
           THEN 793
      ELSE IF Includes(matUpper, "{TONG}") \/ Includes(matUpper, "BRASS")
           THEN 850
      ELSE IF Includes(matUpper, "{SUJIAO}") \/ Includes(matUpper, "PLASTIC")
           THEN 120
      ELSE 785

\* the slip of taking the diameter for the radius
Diameter(dia) == dia

\* Radius = Dia / 2
Radius(dia) == RDiv(dia, RInt(2))

\* the slip of one division by 1000 only: grams for kilograms
WeightG(volumeMm3, density) == RMul(RDiv(volumeMm3, RInt(1000)), density)

\* const weightKg = (volumeMm3 / 1000 * density) / 1000
WeightKg(volumeMm3, density) ==
  RDiv(RMul(RDiv(volumeMm3, RInt(1000)), density), RInt(1000))

\* the useMemo calculation of the card
Calculation(odStr, idStr, lengthStr, totalTimeSeconds) ==
  LET od == parseDim(odStr)
      id == parseDim(idStr)
      len == parseDim(lengthStr)
      density == Rat(customDensity, 100)
      rOut == Radius(od)
      rIn == Radius(id)
      volumeMm3 == RMul(RMul(PI, RSub(RMul(rOut, rOut), RMul(rIn, rIn))), len)
      weightKg == WeightKg(volumeMm3, density)
      machiningCost == RMul(RDiv(Rat(totalTimeSeconds, 100), RInt(3600)),
                            RInt(hourlyRate))
      materialCost == RMul(weightKg, RInt(materialPriceKg))
  IN  [volume |-> volumeMm3, weight |-> weightKg,
       machiningCost |-> machiningCost, materialCost |-> materialCost,
       totalCost |-> RAdd(machiningCost, materialCost)]

\* the card as ResultsView renders it
calculation ==
  Calculation(localResult.stockDiameter, localResult.stockInnerDiameter,
              localResult.stockLength, localResult.totalTimeSeconds)

\* what the user types into the rate, price and density inputs
RateInputs == {0, 600, 900}
PriceInputs == {0, 45, 120}
DensityInputs == {0, 270, 785}

\* onChange={(e) => setHourlyRate(parseFloat(e.target.value) || 0)}
setHourlyRate(v) ==
  /\ appState = "SUCCESS"
  /\ hourlyRate' = v
  /\ lastCall' = Call("setHourlyRate", 0)
  /\ UNCHANGED <<appVars, formVars, history, localResult, materialPriceKg,
                 customDensity, store, now, env, proc, started, edited>>

setMaterialPriceKg(v) ==
  /\ appState = "SUCCESS"
  /\ materialPriceKg' = v
  /\ lastCall' = Call("setMaterialPriceKg", 0)
  /\ UNCHANGED <<appVars, formVars, history, localResult, hourlyRate,
                 customDensity, store, now, env, proc, started, edited>>

setCustomDensity(v) ==
  /\ appState = "SUCCESS"
  /\ customDensity' = v
  /\ lastCall' = Call("setCustomDensity", 0)
  /\ UNCHANGED <<appVars, formVars, history, localResult, hourlyRate,
                 materialPriceKg, store, now, env, proc, started, edited>>

EditRate == \E v \in RateInputs : setHourlyRate(v)
EditPrice == \E v \in PriceInputs : setMaterialPriceKg(v)
EditDensity == \E v \in DensityInputs : setCustomDensity(v)

(***************************************************************************)
(* geminiService: the API key and the errors                               *)
(***************************************************************************)

\* String.prototype.trim
RECURSIVE TrimStart(_)
TrimStart(s) ==
  IF s # "" /\ SubSeq(s, 1, 1) = " " THEN TrimStart(SubSeq(s, 2, Len(s))) ELSE s

RECURSIVE TrimEnd(_)
TrimEnd(s) ==
  IF s # "" /\ SubSeq(s, Len(s), Len(s)) = " "
  THEN TrimEnd(SubSeq(s, 1, Len(s) - 1)) ELSE s

Trim(s) == TrimEnd(TrimStart(s))

\* the places getEnvApiKey looks in, in its order; "" is an unset variable
EnvOrder == <<"importMetaVite", "processVite", "reactApp", "apiKey", "window">>

getEnvApiKey ==
  LET set == {k \in DOMAIN EnvOrder : env[EnvOrder[k]] # ""}
  IN  IF set = {} THEN ""
      ELSE env[EnvOrder[CHOOSE k \in set : \A j \in set : k <= j]]

\* the slip of leaving out the trim: apiKey || getEnvApiKey()
UntrimmedApiKey(key) == IF key # "" THEN key ELSE getEnvApiKey

\* const effectiveApiKey = apiKey?.trim() || getEnvApiKey()
EffectiveApiKey(key) == IF Trim(key) # "" THEN Trim(key) ELSE getEnvApiKey

\* a thrown value as the catch block reads it: err.message, err.toString()
\* and JSON.stringify(err); an Error has no enumerable property of its own
Error(name, message) ==
  [message |-> message, string |-> name \o ": " \o message, json |-> "{}"]

ApiKeyMissing ==
  Error("Error",
        "API_KEY_MISSING: {qing zai} Vercel {sheding huanjing bianshu}, {huo zai wangye xiafang zhijie shuru} API Key.")

NoData == Error("Error", "Gemini {meiyou huichuan ziliao}")

PdfFailed ==
  Error("Error", "PDF {zhuanhuan shibai}, {qing queren dangan wei sunhuai huo changshi zhuancun wei tupian}.")

\* JSON.parse of a text that is no JSON
BadJson == Error("SyntaxError", "Unexpected token < in JSON at position 0")

\* FileReader's error event, which is no Error
ReadFailed ==
  [message |-> "", string |-> "[object ProgressEvent]", json |-> "{\"isTrusted\":true}"]

\* what the AI client rejects with
ApiErrors ==
  {Error("ApiError", "API key not valid. Please pass a valid API key."),
   Error("ApiError", "got status: 503. The model is overloaded."),
   Error("TypeError", "Failed to fetch")}

(***************************************************************************)
(* App: the error banner                                                   *)
(***************************************************************************)

MsgGeneric == "{fenxi tupian shibai}. {qing queren tupian qingxidu bing chongshi}."
MsgApiKey == "API Key {sheding wuxiao}. {qing jiancha} Vercel {huanjing bianshu}, {huo zhijie zai wangye xiafang shuru} API Key."
MsgOverloaded == "{fuwu zanshi fanmang} (Model Overloaded), {qing shaohou zaishi}."
MsgPdf == "PDF {chuli shibai} ({qing queren dangan shifou jiami huo sunhuai})."

\* the message the catch block of handleAnalyze chooses
BannerMessage(err) ==
  LET errorStr == err.string
      errorMsgDetail == err.message
      errorDetails == err.json
  IN  IF \/ Includes(errorMsgDetail, "API key")
         \/ Includes(errorStr, "API key")
         \/ Includes(errorDetails, "API_KEY")
         \/ Includes(errorMsgDetail, "400")
         \/ Includes(errorMsgDetail, "403")
      THEN MsgApiKey
      ELSE IF Includes(errorMsgDetail, "503") \/ Includes(errorMsgDetail, "Overloaded")
      THEN MsgOverloaded
      ELSE IF Includes(errorMsgDetail, "PDF")
      THEN MsgPdf
      ELSE MsgGeneric

(***************************************************************************)
(* storageService                                                          *)
(***************************************************************************)

MAX_ITEMS == 10

Min(a, b) == IF a < b THEN a ELSE b

\* the slip of adding the new item at the end
Appended(newItem, existing) ==
  SubSeq(existing \o <<newItem>>, 1, Min(Len(existing) + 1, MAX_ITEMS))

\* the slip of a slice that keeps one item too many
UpdatedLate(newItem, existing) ==
  SubSeq(<<newItem>> \o existing, 1, Min(Len(existing) + 1, MAX_ITEMS + 1))

\* const updated = [newItem, ...existing].slice(0, MAX_ITEMS)
Updated(newItem, existing) ==
  SubSeq(<<newItem>> \o existing, 1, Min(Len(existing) + 1, MAX_ITEMS))

RECURSIVE Filter(_, _)
Filter(items, id) ==
  IF items = <<>> THEN <<>>
  ELSE IF Head(items).id # id THEN <<Head(items)>> \o Filter(Tail(items), id)
       ELSE Filter(Tail(items), id)

\* existing.filter(item => item.id !== id)
Deleted(id) == Filter(store, id)

\* compressImage: a JPEG data URL, or '' when the image does not load
compressImage(image) == IF image.decodable THEN "data:image/jpeg" ELSE ""

NewItem(id, timestamp, data, thumbnail, preview) ==
  [id |-> id, timestamp |-> timestamp, result |-> data,
   thumbnail |-> thumbnail, previewImage |-> preview]

Ids(items) == {items[k].id : k \in DOMAIN items}

(***************************************************************************)
(* The running calls: handleAnalyze and, inside it, saveHistoryItem        *)
(***************************************************************************)

\* calls that may be in flight together
MaxSlots == 2
Slots == 1..MaxSlots

\* the clock's last value
MaxNow == 2

IdleProc ==
  [pc |-> "idle", apiKey |-> "", sides |-> "1-right", file |-> NULL,
   data |-> NULL, image |-> NULL, thumbnail |-> "", key |-> "",
   clients |-> 0, calls |-> 0, error |-> NULL]

Free(p) == proc[p].pc \in {"idle", "failed"}

\* the lowest free slot takes the next call
NextFree(p) == Free(p) /\ \A q \in Slots : Free(q) => p <= q

\* the files the user can pick or drop: the type, the size in MB, whether
\* the file can be read (a PDF: rendered) and whether an <img> can show it
Png == [type |-> "image/png", size |-> 1, readable |-> TRUE, decodable |-> TRUE]
Pdf == [type |-> "application/pdf", size |-> 1, readable |-> TRUE, decodable |-> TRUE]
BrokenPdf ==
  [type |-> "application/pdf", size |-> 1, readable |-> FALSE, decodable |-> FALSE]
Text == [type |-> "text/plain", size |-> 1, readable |-> TRUE, decodable |-> FALSE]
BigPng == [type |-> "image/png", size |-> 11, readable |-> TRUE, decodable |-> TRUE]
Files == {Png, Pdf, BrokenPdf, Text, BigPng}

\* the mime type fileToGenerativePart resolves with
PartMimeType(file) ==
  IF file.type = "application/pdf" THEN "image/jpeg" ELSE file.type

\* the data URL of the part: its mime type and whether an <img> can load it
DataUrl(file) == [mimeType |-> PartMimeType(file), decodable |-> file.decodable]

\* what fileToGenerativePart rejects with
FileError(file) == IF file.type = "application/pdf" THEN PdfFailed ELSE ReadFailed

(***************************************************************************)
(* Which component is mounted, and what mounting does                      *)
(***************************************************************************)

\* COMMON_MATERIALS[0] and the last entry of COMMON_MATERIALS
AutoMaterial == "{zidong panduan} ({yi tumian})"
CustomMaterial == "{qita} ({ziding})"

\* the fields of the form that the submit button looks at, as useState
\* sets them
DefaultForm ==
  [materialSelection |-> AutoMaterial, customMaterial |-> "", od |-> "",
   length |-> ""]

FormDefaults ==
  /\ selectedFile' = NULL
  /\ form' = DefaultForm
  /\ apiKey' = ""
  /\ sides' = "1-right"

CostDefaults ==
  /\ hourlyRate' = 600
  /\ materialPriceKg' = 45

\* the render that follows setting appState and result: ResultsView is
\* mounted in SUCCESS and EmptyState otherwise; a component that mounts
\* starts from its initial state, EmptyState reading the stored history
Render ==
  IF appState' = "SUCCESS"
  THEN /\ localResult' = result'
       /\ edited' = {}
       /\ customDensity' =
            IF appState = "SUCCESS" /\ result.material = result'.material
            THEN customDensity
            ELSE DetectedDensity(result'.material)
       /\ IF appState = "SUCCESS"
          THEN UNCHANGED <<hourlyRate, materialPriceKg>>
          ELSE CostDefaults
       /\ FormDefaults
       /\ history' = <<>>
  ELSE /\ localResult' = NULL
       /\ edited' = {}
       /\ customDensity' = 785
       /\ CostDefaults
       /\ IF appState = "SUCCESS"
          THEN FormDefaults /\ history' = store'
          ELSE UNCHANGED <<formVars, history>>

\* the catch block of handleAnalyze
Catch(p, err) ==
  /\ appState' = "ERROR"
  /\ errorMsg' = BannerMessage(err)
  /\ proc' = [proc EXCEPT ![p] =
        [@ EXCEPT !.pc = "failed", !.error = err, !.file = NULL, !.image = NULL,
                  !.sides = "1-right"]]
  /\ UNCHANGED <<result, store, now, env, started>>
  /\ Render

(***************************************************************************)
(* EmptyState: the form                                                    *)
(***************************************************************************)

\* EmptyState renders the loading screen while analyzing, the configuration
\* form once a file is selected, and the drop zone with the history otherwise
FormShown == appState \in {"IDLE", "ERROR"} /\ selectedFile # NULL
DropZoneShown == appState \in {"IDLE", "ERROR"} /\ selectedFile = NULL

\* handleDrop / handleChange: setSelectedFile(files[0])
selectFile(file) ==
  /\ DropZoneShown
  /\ selectedFile' = file
  /\ lastCall' = Call("selectFile", 0)
  /\ UNCHANGED <<appVars, apiKey, sides, form, history, localResult, costVars,
                 store, now, env, proc, started, edited>>

setApiKey(key) ==
  /\ FormShown
  /\ apiKey' = key
  /\ lastCall' = Call("setApiKey", 0)
  /\ UNCHANGED <<appVars, selectedFile, sides, form, history, localResult,
                 costVars, store, now, env, proc, started, edited>>

setSides(side) ==
  /\ FormShown
  /\ sides' = side
  /\ lastCall' = Call("setSides", 0)
  /\ UNCHANGED <<appVars, selectedFile, apiKey, form, history, localResult,
                 costVars, store, now, env, proc, started, edited>>

\* setMaterialSelection, setCustomMaterial, setOd, setLength
setField(field, value) ==
  /\ FormShown
  /\ form' = [form EXCEPT ![field] = value]
  /\ lastCall' = Call("setField", 0)
  /\ UNCHANGED <<appVars, selectedFile, apiKey, sides, history, localResult,
                 costVars, store, now, env, proc, started, edited>>

setMaterialSelection(value) == setField("materialSelection", value)
setCustomMaterial(value) == setField("customMaterial", value)
setOd(value) == setField("od", value)
setLength(value) == setField("length", value)

\* the cancel button: every field but the API key goes back to its default
handleResetFile ==
  /\ FormShown
  /\ selectedFile' = NULL
  /\ sides' = "1-right"
  /\ form' = DefaultForm
  /\ lastCall' = Call("handleResetFile", 0)
  /\ UNCHANGED <<appVars, apiKey, history, localResult, costVars, store, now,
                 env, proc, started, edited>>

\* deleteHistoryItem(id), then setHistory(updated)
handleDeleteHistory(id) ==
  /\ DropZoneShown
  /\ id \in Ids(history)
  /\ store' = Deleted(id)
  /\ history' = store'
  /\ lastCall' = Call("deleteHistoryItem", 0)
  /\ UNCHANGED <<appVars, formVars, localResult, costVars, now, env, proc,
                 started, edited>>

(***************************************************************************)
(* App: handleAnalyze, step by step                                        *)
(***************************************************************************)

\* the slip of a submit button that is never disabled
SubmitAlways == selectedFile # NULL

\* handleConfirmAnalysis returns without a file, and its button is disabled
\* without a custom material when that is the choice, without od or length
SubmitEnabled ==
  /\ selectedFile # NULL
  /\ ~ \/ form.materialSelection = CustomMaterial /\ Trim(form.customMaterial) = ""
       \/ form.od = ""
       \/ form.length = ""

\* handleConfirmAnalysis calls onAnalyze, and handleAnalyze runs up to its
\* first await: setAppState(ANALYZING), setErrorMsg(null)
handleAnalyze(p) ==
  /\ FormShown
  /\ SubmitEnabled
  /\ NextFree(p)
  /\ appState' = "ANALYZING"
  /\ errorMsg' = NULL
  /\ proc' = [proc EXCEPT ![p] =
        [IdleProc EXCEPT !.pc = "file", !.apiKey = apiKey, !.sides = sides,
                         !.file = selectedFile]]
  /\ started' = started + 1
  /\ lastCall' = Call("handleAnalyze", p)
  /\ UNCHANGED <<result, previewImage, formVars, history, localResult,
                 costVars, store, now, env, edited>>

\* fileToGenerativePart rejects: the catch block runs
FileRejected(p) ==
  /\ proc[p].pc = "file"
  /\ ~proc[p].file.readable
  /\ Catch(p, FileError(proc[p].file))
  /\ lastCall' = Call("catch", p)
  /\ UNCHANGED previewImage

\* fileToGenerativePart resolves: setPreviewImage, then analyzeBlueprint runs
\* up to its await: it throws without a key, and otherwise creates the
\* client and calls generateContent
FileResolved(p) ==
  /\ proc[p].pc = "file"
  /\ proc[p].file.readable
  /\ previewImage' = DataUrl(proc[p].file)
  /\ LET effectiveApiKey == EffectiveApiKey(proc[p].apiKey)
     IN  IF effectiveApiKey = ""
         THEN /\ Catch(p, ApiKeyMissing)
              /\ lastCall' = Call("catch", p)
         ELSE /\ proc' = [proc EXCEPT ![p] =
                    [@ EXCEPT !.pc = "api", !.key = effectiveApiKey,
                              !.clients = @ + 1, !.calls = @ + 1,
                              !.image = DataUrl(proc[p].file), !.file = NULL]]
              /\ lastCall' = Call("generateContent", p)
              /\ UNCHANGED <<appState, result, errorMsg, formVars, history,
                             localResult, costVars, store, now, env, started,
                             edited>>

\* the slip of trying the call again after a failure
Retried(p, err) ==
  /\ proc' = [proc EXCEPT ![p] = [@ EXCEPT !.calls = @ + 1]]
  /\ UNCHANGED <<appVars, formVars, history, localResult, costVars, store, now,
                 env, started, edited>>

\* generateContent rejects: analyzeBlueprint rethrows, the catch block runs
Rejected(p, err) == Catch(p, err) /\ UNCHANGED previewImage

ApiRejected(p) ==
  /\ proc[p].pc = "api"
  /\ \E err \in ApiErrors : Rejected(p, err)
  /\ lastCall' = Call("catch", p)

\* generateContent resolves without a text, or with one that is no JSON
ApiUnusable(p) ==
  /\ proc[p].pc = "api"
  /\ \E err \in {NoData, BadJson} : Rejected(p, err)
  /\ lastCall' = Call("catch", p)

\* generateContent resolves with an estimate: parsed.sideMode = sides,
\* setResult, setAppState(SUCCESS), and saveHistoryItem starts compressing
ApiResolved(p, response) ==
  /\ proc[p].pc = "api"
  /\ LET data == [response EXCEPT !.sideMode = proc[p].sides]
     IN  /\ result' = data
         /\ proc' = [proc EXCEPT ![p] = [@ EXCEPT !.pc = "thumb", !.data = data]]
  /\ appState' = "SUCCESS"
  /\ lastCall' = Call("setResult", p)
  /\ UNCHANGED <<errorMsg, previewImage, store, now, env, started>>
  /\ Render

(***************************************************************************)
(* storageService: saveHistoryItem, deleteHistoryItem, clearHistory        *)
(***************************************************************************)

\* const thumbnail = await compressImage(originalImageBase64, 150, 0.6)
ThumbnailDone(p) ==
  /\ proc[p].pc = "thumb"
  /\ proc' = [proc EXCEPT ![p] =
        [@ EXCEPT !.pc = "preview", !.thumbnail = compressImage(proc[p].image)]]
  /\ lastCall' = Call("compressImage", p)
  /\ UNCHANGED <<appVars, formVars, history, localResult, costVars, store, now,
                 env, started, edited>>

\* the slot once saveHistoryItem has returned
Returned(p) == [proc EXCEPT ![p] = IdleProc]

\* the second compressImage resolves and the rest of saveHistoryItem runs:
\* the item gets its id and, from a later Date.now(), its timestamp, and the
\* list read from storage is written back with the item in front
ItemSaved(p) ==
  /\ proc[p].pc = "preview"
  /\ \E d \in {0, 1} :
       /\ now + d <= MaxNow
       /\ now' = now + d
       /\ store' = Updated(NewItem(now, now + d, proc[p].data, proc[p].thumbnail,
                                   compressImage(proc[p].image)),
                           store)
  /\ proc' = Returned(p)
  /\ lastCall' = [Call("saveHistoryItem", p) EXCEPT !.existing = Len(store)]
  /\ UNCHANGED <<appVars, formVars, history, localResult, costVars, env,
                 started, edited>>

\* the slip of letting the error of localStorage.setItem out of
\* saveHistoryItem, into the catch block of handleAnalyze
SaveRejected(p) ==
  /\ proc[p].pc = "preview"
  /\ Catch(p, Error("QuotaExceededError", "The quota has been exceeded."))
  /\ lastCall' = Call("saveHistoryItem.catch", p)
  /\ UNCHANGED previewImage

\* localStorage.setItem throws (the quota is exceeded): the catch block of
\* saveHistoryItem swallows it
SaveFailed(p) ==
  /\ proc[p].pc = "preview"
  /\ proc' = Returned(p)
  /\ lastCall' = Call("saveHistoryItem.catch", p)
  /\ UNCHANGED <<appVars, formVars, history, localResult, costVars, store, now,
                 env, started, edited>>

\* the clock advances
Tick ==
  /\ now < MaxNow
  /\ now' = now + 1
  /\ UNCHANGED <<appVars, formVars, history, localResult, costVars, store, env,
                 proc, started, edited, lastCall>>

\* saveHistoryItem called by itself, up to its first await
saveHistoryItem(p, data, image) ==
  /\ NextFree(p)
  /\ proc' = [proc EXCEPT ![p] =
        [IdleProc EXCEPT !.pc = "thumb", !.data = data, !.image = image]]
  /\ started' = started + 1
  /\ lastCall' = Call("saveHistoryItem.call", p)
  /\ UNCHANGED <<appVars, formVars, history, localResult, costVars, store, now,
                 env, edited>>

\* deleteHistoryItem called by itself
deleteHistoryItem(id) ==
  /\ store' = Deleted(id)
  /\ lastCall' = Call("deleteHistoryItem", 0)
  /\ UNCHANGED <<appVars, formVars, history, localResult, costVars, now, env,
                 proc, started, edited>>

\* localStorage.removeItem(STORAGE_KEY): getHistory then reads []
clearHistory ==
  /\ store' = <<>>
  /\ lastCall' = Call("clearHistory", 0)
  /\ UNCHANGED <<appVars, formVars, history, localResult, costVars, now, env,
                 proc, started, edited>>

(***************************************************************************)
(* App: handleLoadHistory and resetApp                                     *)
(***************************************************************************)

\* the slip of saving the loaded estimate to the history again
handleLoadHistoryAndSave(item) ==
  /\ DropZoneShown
  /\ result' = item.result
  /\ previewImage' = item.previewImage
  /\ appState' = "SUCCESS"
  /\ errorMsg' = NULL
  /\ lastCall' = Call("handleLoadHistory", 0)
  /\ store' = Updated([item EXCEPT !.id = now, !.timestamp = now], store)
  /\ UNCHANGED <<now, env, proc, started>>
  /\ Render

handleLoadHistory(item) ==
  /\ DropZoneShown
  /\ result' = item.result
  /\ previewImage' = item.previewImage
  /\ appState' = "SUCCESS"
  /\ errorMsg' = NULL
  /\ lastCall' = Call("handleLoadHistory", 0)
  /\ UNCHANGED <<store, now, env, proc, started>>
  /\ Render

\* the logo of the navigation bar, the retry link of the banner and the
\* reset button of ResultsView
resetApp ==
  /\ appState' = "IDLE"
  /\ result' = NULL
  /\ errorMsg' = NULL
  /\ previewImage' = NULL
  /\ lastCall' = Call("resetApp", 0)
  /\ UNCHANGED <<store, now, env, proc, started>>
  /\ Render

(***************************************************************************)
(* Spec: the application                                                   *)
(***************************************************************************)

\* calls of handleAnalyze in a run
MaxAnalyses == 2

NoEnv ==
  [importMetaVite |-> "", processVite |-> "", reactApp |-> "", apiKey |-> "",
   window |-> ""]

\* the environments: no key, one key, and two keys in different places
Envs ==
  {NoEnv,
   [NoEnv EXCEPT !.apiKey = "env-key"],
   [NoEnv EXCEPT !.processVite = "vite-key", !.window = "window-key"]}

ApiKeyInputs == {"", "  ", " ui-key "}
SideInputs == {"2"}

\* what the user does and what the AI model answers in the application
AppFiles == {Png, BrokenPdf}
AppKeyInputs == {"", "ui-key"}
Responses == {Single}

Mounted ==
  /\ selectedFile = NULL
  /\ form = DefaultForm
  /\ apiKey = ""
  /\ sides = "1-right"
  /\ hourlyRate = 600
  /\ materialPriceKg = 45
  /\ customDensity = 785
  /\ localResult = NULL
  /\ edited = {}

Init ==
  /\ appState = "IDLE"
  /\ result = NULL
  /\ errorMsg = NULL
  /\ previewImage = NULL
  /\ Mounted
  /\ store = <<>>
  /\ history = <<>>
  /\ now = 0
  /\ env = NoEnv
  /\ proc = [p \in Slots |-> IdleProc]
  /\ started = 0
  /\ lastCall = Call("mount", 0)

PickFile == \E file \in AppFiles : selectFile(file)
\* the stock dimensions typed in the application
TypeOd == setOd("50")
TypeLength == setLength("100")
TypeApiKey == \E key \in AppKeyInputs : setApiKey(key)
Analyze == \E p \in Slots : started < MaxAnalyses /\ handleAnalyze(p)
FileFails == \E p \in Slots : FileRejected(p)
FileLoads == \E p \in Slots : FileResolved(p)
ApiFails == \E p \in Slots : ApiRejected(p)
ApiAnswersBadly == \E p \in Slots : ApiUnusable(p)
ApiAnswers == \E p \in Slots, response \in Responses : ApiResolved(p, response)
Compress == \E p \in Slots : ThumbnailDone(p)
Save == \E p \in Slots : ItemSaved(p)
SaveFails == \E p \in Slots : SaveFailed(p)
LoadHistory == \E k \in DOMAIN history : handleLoadHistory(history[k])
DeleteHistory == \E k \in DOMAIN history : handleDeleteHistory(history[k].id)

\* the edits tried in the application
AppEditRpm == \E index \in OpIndices : handleParamChange(index, "rpm", NumInput(500))
AppEditFeed == \E index \in OpIndices : handleParamChange(index, "feedRate", EmptyInput)
AppEditName == \E index \in OpIndices : handleOpTextChange(index, "name", "{diaotou}")

Next ==
  \/ PickFile
  \/ TypeOd
  \/ TypeLength
  \/ TypeApiKey
  \/ handleResetFile
  \/ Analyze
  \/ FileFails
  \/ FileLoads
  \/ ApiFails
  \/ ApiAnswersBadly
  \/ ApiAnswers
  \/ Compress
  \/ Save
  \/ SaveFails
  \/ LoadHistory
  \/ DeleteHistory
  \/ resetApp
  \/ AppEditRpm
  \/ AppEditFeed
  \/ AppEditName

Spec == Init /\ [][Next]_vars

(***************************************************************************)
(* SpecKeys: analyses under every environment and typed key                *)
(***************************************************************************)

InitKeys ==
  /\ appState = "IDLE"
  /\ result = NULL
  /\ errorMsg = NULL
  /\ previewImage = NULL
  /\ Mounted
  /\ store = <<>>
  /\ history = <<>>
  /\ now = 0
  /\ env \in Envs
  /\ proc = [p \in Slots |-> IdleProc]
  /\ started = 0
  /\ lastCall = Call("mount", 0)

PickPng == selectFile(Png)
TypeAnyApiKey == \E key \in ApiKeyInputs : setApiKey(key)

NextKeys ==
  \/ PickPng
  \/ TypeOd
  \/ TypeLength
  \/ TypeAnyApiKey
  \/ Analyze
  \/ FileLoads
  \/ ApiFails
  \/ ApiAnswersBadly
  \/ ApiAnswers
  \/ Compress
  \/ Save
  \/ SaveFails
  \/ resetApp

SpecKeys == InitKeys /\ [][NextKeys]_vars

(***************************************************************************)
(* SpecEdit: ResultsView showing an estimate                               *)
(***************************************************************************)

InitEdit ==
  /\ appState = "SUCCESS"
  /\ result \in EditResults
  /\ localResult = result
  /\ edited = {}
  /\ errorMsg = NULL
  /\ previewImage = NULL
  /\ selectedFile = NULL
  /\ form = DefaultForm
  /\ apiKey = ""
  /\ sides = "1-right"
  /\ hourlyRate = 600
  /\ materialPriceKg = 45
  /\ customDensity = DetectedDensity(result.material)
  /\ store = <<>>
  /\ history = <<>>
  /\ now = 0
  /\ env = NoEnv
  /\ proc = [p \in Slots |-> IdleProc]
  /\ started = 0
  /\ lastCall = Call("mount", 0)

NextEdit == EditRpm \/ EditFeed \/ EditName

SpecEdit == InitEdit /\ [][NextEdit]_vars

(***************************************************************************)
(* SpecCost: the cost card of an estimate                                  *)
(***************************************************************************)

\* estimates that differ in their stock and their total time
CostResults ==
  {TwoSided, OneSided, Bare,
   Estimate("SUS304 {buxiugang}", "OD 32.5 mm", "ID 10mm", "L=80", <<>>, 6000, "2"),
   Estimate("1215 S45C", "40", "0.0", "25.5mm", <<>>, 125, "1-left"),
   Estimate("brass", "12 x 3", "", "1.2.3", <<>>, 0, "1-right")}

InitCost ==
  /\ appState = "SUCCESS"
  /\ result \in CostResults
  /\ localResult = result
  /\ edited = {}
  /\ errorMsg = NULL
  /\ previewImage = NULL
  /\ selectedFile = NULL
  /\ form = DefaultForm
  /\ apiKey = ""
  /\ sides = "1-right"
  /\ hourlyRate = 600
  /\ materialPriceKg = 45
  /\ customDensity = DetectedDensity(result.material)
  /\ store = <<>>
  /\ history = <<>>
  /\ now = 0
  /\ env = NoEnv
  /\ proc = [p \in Slots |-> IdleProc]
  /\ started = 0
  /\ lastCall = Call("mount", 0)

NextCost == EditRate \/ EditPrice \/ EditDensity

SpecCost == InitCost /\ [][NextCost]_vars

(***************************************************************************)
(* SpecStore: the storage service called by itself                         *)
(***************************************************************************)

\* calls of saveHistoryItem in a run
MaxSaves == 12

SaveCall ==
  \E p \in Slots :
    started < MaxSaves /\ saveHistoryItem(p, Bare, DataUrl(Png))

DeleteCall ==
  \E id \in Ids(store) : deleteHistoryItem(id)

InitStore == Init

NextStore ==
  \/ SaveCall
  \/ Compress
  \/ Save
  \/ SaveFails
  \/ Tick
  \/ DeleteCall
  \/ clearHistory

SpecStore == InitStore /\ [][NextStore]_vars

(***************************************************************************)
(* The files: App with every file the user can pick or drop                *)
(***************************************************************************)

PickAnyFile == \E file \in Files : selectFile(file)

NextFiles ==
  \/ PickAnyFile
  \/ TypeOd
  \/ TypeLength
  \/ TypeApiKey
  \/ handleResetFile
  \/ Analyze
  \/ FileFails
  \/ FileLoads
  \/ ApiFails
  \/ ApiAnswers
  \/ Compress
  \/ Save
  \/ SaveFails
  \/ resetApp

SpecFiles == Init /\ [][NextFiles]_vars

(***************************************************************************)
(* The form: EmptyState with every state of the fields the button reads    *)
(***************************************************************************)

ChooseMaterial ==
  \E value \in {AutoMaterial, "S45C {zhongtangang}", CustomMaterial} :
    setMaterialSelection(value)
TypeCustomMaterial == \E value \in {"", "  ", "Ti-6Al-4V"} : setCustomMaterial(value)
TypeAnyOd == \E value \in {"", "50"} : setOd(value)
TypeAnyLength == \E value \in {"", "100"} : setLength(value)

NextForm ==
  \/ PickPng
  \/ ChooseMaterial
  \/ TypeCustomMaterial
  \/ TypeAnyOd
  \/ TypeAnyLength
  \/ handleResetFile
  \/ Analyze
  \/ FileLoads
  \/ resetApp

SpecForm == Init /\ [][NextForm]_vars

(***************************************************************************)
(* The claims                                                              *)
(***************************************************************************)

\* t is num/den rounded to one decimal (t in hundredths: a multiple of 10
\* at most half a tenth from num/den, the half rounding upwards); den > 0
IsRoundedToOneDecimal(t, num, den) ==
  /\ t % 10 = 0
  /\ num - 5 * den < t * den
  /\ t * den <= num + 5 * den

HasOriginalData(index) ==
  /\ result.operations[index].estimatedTimeSeconds # 0
  /\ Truthy(result.operations[index].rpm)
  /\ Truthy(result.operations[index].feedRate)

HasPositiveData(index) ==
  /\ OrZero(localResult.operations[index].rpm) > 0
  /\ OrZero(localResult.operations[index].feedRate) > 0

\* the time of operation index is (original time * original rpm * original
\* feed) / (current rpm * current feed), rounded to one decimal
TimeFollowsOriginal(index) ==
  IsRoundedToOneDecimal(
    localResult.operations[index].estimatedTimeSeconds,
    result.operations[index].estimatedTimeSeconds
      * result.operations[index].rpm[1] * result.operations[index].feedRate[1],
    localResult.operations[index].rpm[1] * localResult.operations[index].feedRate[1])

\* C1 as stated: once rpm or feed edits have been made in the results view,
\* every operation with a non-zero original time, rpm and feed that now has
\* rpm > 0 and feed > 0 has the time (original time * original rpm *
\* original feed) / (rpm * feed) rounded to one decimal.
C1_AsStated ==
  edited # {} =>
    \A index \in OpIndices :
      HasOriginalData(index) /\ HasPositiveData(index) => TimeFollowsOriginal(index)

\* C1, amended: the same for every operation whose own rpm or feed has been
\* edited at least once; the time then depends on the current rpm and feed
\* and the original estimate only.  (An operation never edited keeps the
\* AI's time, which need not be rounded to one decimal.)
C1_NoDrift ==
  \A index \in edited :
    HasOriginalData(index) /\ HasPositiveData(index) => TimeFollowsOriginal(index)

\* an edited operation with its original rpm and another feed, whose time
\* was recalculated away from the AI's
C1_Witness ==
  \E index \in edited :
    /\ HasOriginalData(index)
    /\ HasPositiveData(index)
    /\ localResult.operations[index].rpm = result.operations[index].rpm
    /\ localResult.operations[index].feedRate # result.operations[index].feedRate
    /\ localResult.operations[index].estimatedTimeSeconds
         # result.operations[index].estimatedTimeSeconds

\* C2: once an rpm or feed edit has been made, totalTimeSeconds is the sum
\* of the operations' estimatedTimeSeconds rounded to one decimal.
C2_TotalIsSum ==
  edited # {} =>
    IsRoundedToOneDecimal(localResult.totalTimeSeconds,
                          SumTimes(localResult.operations), 1)

\* an edit has changed an operation's time and with it the total
C2_Witness ==
  /\ edited # {}
  /\ SumTimes(localResult.operations) # SumTimes(result.operations)
  /\ localResult.totalTimeSeconds # result.totalTimeSeconds

\* isSide2 when the forEach of splitTimes reaches operation k
Side2Before(ops, k) ==
  \E j \in 1..(k - 1) :
    IsSide2Keyword(ToLowerCase(ops[j].name)) \/ IsFlipKeyword(ToLowerCase(ops[j].name))

\* C4: every operation's time is added to exactly one of l1 and l2, and
\* before the rounding l1 + l2 is the sum of the operations' times.
C4_SplitPartitions ==
  localResult # NULL =>
    LET ops == localResult.operations
    IN  /\ \A k \in DOMAIN ops :
             Cardinality(Buckets(ToLowerCase(ops[k].name), Side2Before(ops, k))) = 1
        /\ SplitRaw(ops).l1 + SplitRaw(ops).l2 = SumTimes(ops)

\* a list in which the user has renamed a later operation to a flip, with
\* time in both buckets
C4_Witness ==
  /\ localResult # NULL
  /\ \E k \in DOMAIN localResult.operations :
       /\ k > 1
       /\ localResult.operations[k].name # result.operations[k].name
       /\ IsFlipKeyword(ToLowerCase(localResult.operations[k].name))
  /\ SplitRaw(localResult.operations).l1 > 0
  /\ SplitRaw(localResult.operations).l2 > 0

\* the card's inputs as the claim names them
ClaimedWeightKg ==
  LET od == parseDim(localResult.stockDiameter)
      id == parseDim(localResult.stockInnerDiameter)
      length == parseDim(localResult.stockLength)
      halfOd == RDiv(od, RInt(2))
      halfId == RDiv(id, RInt(2))
  IN  RDiv(RMul(RMul(RMul(PI, RSub(RMul(halfOd, halfOd), RMul(halfId, halfId))),
                     length),
                Rat(customDensity, 100)),
           RInt(1000000))

ClaimedMachiningCost ==
  RMul(RDiv(Rat(localResult.totalTimeSeconds, 100), RInt(3600)), RInt(hourlyRate))

ClaimedMaterialCost == RMul(ClaimedWeightKg, RInt(materialPriceKg))

\* C3: weightKg = pi * ((od/2)^2 - (id/2)^2) * length * density / 1000000,
\* machiningCost = totalTimeSeconds / 3600 * hourlyRate, materialCost =
\* weightKg * materialPriceKg and totalCost = machiningCost + materialCost.
C3_CostFormulas ==
  /\ calculation.weight = ClaimedWeightKg
  /\ calculation.machiningCost = ClaimedMachiningCost
  /\ calculation.materialCost = ClaimedMaterialCost
  /\ calculation.totalCost = RAdd(ClaimedMachiningCost, ClaimedMaterialCost)

\* a hollow stock with a weight, after the rate, the price and the density
\* have been set by the user
C3_Witness ==
  /\ parseDim(localResult.stockInnerDiameter)[1] > 0
  /\ calculation.weight[1] > 0
  /\ calculation.machiningCost[1] > 0
  /\ hourlyRate = 900
  /\ materialPriceKg = 120
  /\ customDensity = 270

\* C5: the stored history holds at most 10 items.
C5_AtMostTen == Len(store) <= 10

\* a save that read a full list and left a full list
C5_Witness ==
  /\ lastCall.op = "saveHistoryItem"
  /\ lastCall.existing = 10
  /\ Len(store) = 10

NewestFirst ==
  \A k \in 1..(Len(store) - 1) : store[k].timestamp >= store[k + 1].timestamp

\* the step in which call p writes its item
Saves(p) ==
  /\ proc[p].pc = "preview"
  /\ proc'[p].pc = "idle"
  /\ lastCall'.op = "saveHistoryItem"

\* C6: a successful save puts the new item at index 0, followed by the
\* previous items in their order, the last one dropped when there would be
\* more than 10; and timestamps never increase along the stored list, with
\* deletes and overlapping saves.
C6_NewestFirst ==
  /\ []NewestFirst
  /\ [][\A p \in Slots :
          Saves(p) =>
            /\ Len(store') = Min(Len(store) + 1, 10)
            /\ store'[1].result = proc[p].data
            /\ store'[1].timestamp = now'
            /\ \A k \in 2..Len(store') : store'[k] = store[k - 1]]_vars

\* a save has dropped the oldest of ten items while another save was in
\* flight, and the list holds items of different times
C6_Witness ==
  /\ lastCall.op = "saveHistoryItem"
  /\ lastCall.existing = 10
  /\ store[1].timestamp > store[10].timestamp
  /\ \E p \in Slots : proc[p].pc \in {"thumb", "preview"}

\* the step in which the analysis of call p fails
Fails(p) == proc[p].pc \in {"file", "api"} /\ proc'[p].pc = "failed"

\* C7: an analysis creates at most one client and makes at most one call
\* to the AI model, and a failure makes no further call and puts the
\* application in ERROR.
C7_OneCall ==
  /\ [](\A p \in Slots : proc[p].calls <= 1 /\ proc[p].clients <= 1)
  /\ [][\A p \in Slots :
          Fails(p) => appState' = "ERROR" /\ proc'[p].calls = proc[p].calls]_vars

\* the AI model's call of a second analysis has failed
C7_Witness ==
  /\ started = 2
  /\ appState = "ERROR"
  /\ \E p \in Slots :
       /\ lastCall = Call("catch", p)
       /\ proc[p].pc = "failed"
       /\ proc[p].calls = 1
       /\ proc[p].error \in ApiErrors

\* the estimates the AI model returned, as analyzeBlueprint hands them on
Answers == {[r EXCEPT !.sideMode = side] : r \in Responses, side \in {"1-right", "2"}}

\* C8: the stored history changes only in a save after a successful
\* analysis, a delete or a clear; a failed analysis, loading a history
\* item, resetting and editing leave it unchanged, so that every stored
\* estimate is one the AI model returned.
C8_StoreFrame ==
  /\ [](\A k \in DOMAIN store : store[k].result \in Answers)
  /\ [][/\ (store' # store =>
              lastCall'.op \in {"saveHistoryItem", "deleteHistoryItem", "clearHistory"})
         /\ (lastCall'.op = "saveHistoryItem" =>
              /\ proc[lastCall'.slot].pc = "preview"
              /\ store'[1].result = proc[lastCall'.slot].data)
         /\ (lastCall'.op \in {"catch", "handleLoadHistory", "resetApp",
                               "handleParamChange", "handleOpTextChange"} =>
              store' = store)]_vars

\* a stored estimate was loaded and edited, and the store still holds it as
\* the AI model returned it
C8_Witness ==
  /\ appState = "SUCCESS"
  /\ lastCall.op = "handleParamChange"
  /\ \A p \in Slots : proc[p].pc \in {"idle", "failed"}
  /\ \E p \in Slots : proc[p].pc = "failed"
  /\ Len(store) = 1
  /\ store[1].result = result
  /\ localResult.operations # result.operations

NonBlank(key) == \E k \in 1..Len(key) : SubSeq(key, k, k) # " "

EnvKeys == {env[EnvOrder[k]] : k \in DOMAIN EnvOrder} \ {""}

\* C9: the call uses the typed key, trimmed, whenever it is not blank, and
\* otherwise a key of the environment; with neither, analyzeBlueprint
\* rejects with API_KEY_MISSING before any client or call is made.
C9_WhichKey ==
  \A p \in Slots :
    /\ proc[p].clients > 0 =>
         /\ proc[p].key # ""
         /\ (NonBlank(proc[p].apiKey) => proc[p].key = Trim(proc[p].apiKey))
         /\ (~NonBlank(proc[p].apiKey) => proc[p].key \in EnvKeys)
    /\ proc[p].pc \in {"api", "thumb", "preview"} => proc[p].clients = 1
    /\ (proc[p].pc = "failed" /\ proc[p].error = ApiKeyMissing) =>
         /\ ~NonBlank(proc[p].apiKey)
         /\ EnvKeys = {}
         /\ proc[p].clients = 0
         /\ proc[p].calls = 0
    /\ (proc[p].pc \in {"api", "thumb", "preview", "failed"}
          /\ ~NonBlank(proc[p].apiKey) /\ EnvKeys = {}) =>
         proc[p].pc = "failed" /\ proc[p].error = ApiKeyMissing

\* a call made with the trimmed typed key
C9_Witness ==
  \E p \in Slots :
    /\ proc[p].pc = "api"
    /\ proc[p].apiKey = " ui-key "
    /\ proc[p].key = "ui-key"
    /\ EnvKeys # {}

\* a typed key of blanks only and two keys in the environment: the first
\* the environment has is used
C9_WitnessEnv ==
  \E p \in Slots :
    /\ proc[p].pc = "api"
    /\ proc[p].apiKey = "  "
    /\ proc[p].key = "vite-key"

\* a typed key of blanks only and no key in the environment
C9_WitnessMissing ==
  \E p \in Slots :
    /\ proc[p].pc = "failed"
    /\ proc[p].apiKey = "  "
    /\ proc[p].error = ApiKeyMissing

\* C10: when the analysis fails with API_KEY_MISSING, the banner shows the
\* API-key message.
C10_ApiKeyBanner ==
  \A p \in Slots :
    (lastCall = Call("catch", p) /\ proc[p].error = ApiKeyMissing) =>
      errorMsg = MsgApiKey

\* the files the drop zone says it supports: PNG, JPG, WEBP, PDF, 10MB at most
Supported(file) ==
  /\ file.type \in {"image/png", "image/jpeg", "image/webp", "application/pdf"}
  /\ file.size <= 10

\* C11: a file of another type than PNG, JPG, WEBP and PDF, or larger than
\* 10MB, never becomes the selected file and is never handed to
\* handleAnalyze.
C11_OnlySupported ==
  /\ selectedFile # NULL => Supported(selectedFile)
  /\ \A p \in Slots : proc[p].file # NULL => Supported(proc[p].file)

\* the steps of saveHistoryItem
SaveSteps == {"compressImage", "saveHistoryItem", "saveHistoryItem.catch"}

\* C12: saveHistoryItem never rejects, so that no step of it runs the catch
\* block of handleAnalyze or changes what the application shows;
\* compressImage resolves, with '' for an image that does not load; and
\* when the write fails the stored history is unchanged.
C12_SaveFailSafe ==
  /\ [](\A p \in Slots :
         (proc[p].pc = "preview" /\ ~proc[p].image.decodable) =>
           proc[p].thumbnail = "")
  /\ [][/\ \A p \in Slots :
              proc[p].pc \in {"thumb", "preview"} =>
                proc'[p].pc \in {"thumb", "preview", "idle"}
         /\ (lastCall'.op \in SaveSteps =>
              /\ appState' = appState
              /\ result' = result
              /\ errorMsg' = errorMsg
              /\ previewImage' = previewImage)
         /\ (lastCall'.op = "saveHistoryItem.catch" => store' = store)]_vars

\* the write of an estimate failed after its image did not load: the
\* application shows the estimate and nothing is stored
C12_Witness ==
  /\ lastCall.op = "saveHistoryItem.catch"
  /\ appState = "SUCCESS"
  /\ result \in Answers
  /\ previewImage = DataUrl(Text)
  /\ store = <<>>

\* C13: onAnalyze is invoked only with a selected file, a non-empty outer
\* diameter, a non-empty length and, when the material choice is the custom
\* option, a custom material that is not blank.
C13_StartNeedsForm ==
  [][started' = started + 1 =>
       /\ lastCall'.op = "handleAnalyze"
       /\ selectedFile # NULL
       /\ form.od # ""
       /\ form.length # ""
       /\ form.materialSelection = CustomMaterial => NonBlank(form.customMaterial)]_vars

\* an analysis started with the custom material filled in, after one that
\* failed
C13_Witness ==
  /\ lastCall.op = "handleAnalyze"
  /\ started = 2
  /\ appState = "ANALYZING"
  /\ form.materialSelection = CustomMaterial
  /\ form.customMaterial = "Ti-6Al-4V"

\* the button is disabled by a custom material of blanks only
C13_WitnessDisabled ==
  /\ FormShown
  /\ ~SubmitEnabled
  /\ form.od # ""
  /\ form.length # ""
  /\ form.customMaterial = "  "

IsFlip(ops, k) == IsFlipKeyword(ToLowerCase(ops[k].name))

\* the accumulators the forEach of splitTimes adds operation k's time to
BucketsOf(ops, k) == Buckets(ToLowerCase(ops[k].name), Side2Before(ops, k))

\* C14: the time of a flip (or sub-spindle transfer) operation is added to
\* l1, and the time of every operation after it in the list is added to l2.
C14_AfterFlipIsL2 ==
  localResult # NULL =>
    LET ops == localResult.operations
    IN  \A k \in DOMAIN ops :
          IsFlip(ops, k) =>
            /\ BucketsOf(ops, k) = {"l1"}
            /\ \A j \in DOMAIN ops : j > k => BucketsOf(ops, j) = {"l2"}

\* C15: for an estimate of single-sided machining (sideMode '1-left',
\* '1-right' or '1-complete') no time is put in l2 and the L1 | L2 line is
\* not shown, whatever the operations are called.
C15_SplitOnlyTwoSided ==
  (localResult # NULL /\ localResult.sideMode \in {"1-left", "1-right", "1-complete"}) =>
    /\ SplitRaw(localResult.operations).l2 = 0
    /\ ~SplitShown

\* C16: no two items of the stored history have the same id.
C16_UniqueIds ==
  \A j, k \in DOMAIN store : j # k => store[j].id # store[k].id

IsImageType(mimeType) == Len(mimeType) >= 6 /\ SubSeq(mimeType, 1, 6) = "image/"

\* C17: the part that fileToGenerativePart resolves with, which is
\* previewed and passed to analyzeBlueprint, has an image mime type for
\* every file the user can select or drop.
C17_OnlyImagesSent ==
  /\ previewImage # NULL => IsImageType(previewImage.mimeType)
  /\ \A p \in Slots : proc[p].image # NULL => IsImageType(proc[p].image.mimeType)

\* operation index has the rpm and the feed rate of the AI's estimate
HasOriginalParams(index) ==
  /\ localResult.operations[index].rpm = result.operations[index].rpm
  /\ localResult.operations[index].feedRate = result.operations[index].feedRate

\* the time in hundredths of a second, rounded to one decimal of a second
RoundedTime(t) == 10 * MathRound(t, 10)

\* C18 as stated: an edited operation whose rpm and feed rate are back at
\* their original values has the time of the AI's estimate.
C18_AsStated ==
  localResult # NULL =>
    \A index \in edited :
      HasOriginalParams(index) =>
        localResult.operations[index].estimatedTimeSeconds =
          result.operations[index].estimatedTimeSeconds

\* C18: an edited operation whose rpm and feed rate are back at their
\* original values has the time of the AI's estimate rounded to one decimal
\* when the estimate has a time, an rpm and a feed rate, and the time of
\* the AI's estimate as it is otherwise.
C18_RoundTrip ==
  localResult # NULL =>
    \A index \in edited :
      HasOriginalParams(index) =>
        localResult.operations[index].estimatedTimeSeconds =
          IF HasOriginalData(index)
          THEN RoundedTime(result.operations[index].estimatedTimeSeconds)
          ELSE result.operations[index].estimatedTimeSeconds

\* an operation with a time of 12.34 s came back from an edit with 12.3 s,
\* next to an edited one that is not at its original values
C18_Witness ==
  /\ localResult # NULL
  /\ \E index \in edited :
       /\ HasOriginalParams(index)
       /\ HasOriginalData(index)
       /\ result.operations[index].estimatedTimeSeconds = 1234
       /\ localResult.operations[index].estimatedTimeSeconds = 1230
  /\ \E index \in edited : ~HasOriginalParams(index)

====
